---- MODULE Spec2Model ----
(***************************************************************************)
(* ExpenseEase backend: the account handlers (register, login, admin       *)
(* login, logout, profile update, change of password, account deletion),   *)
(* the admin routes behind their gate and the expense handlers (create,    *)
(* list, statistics, get, update, delete) with their route tables, over    *)
(* the User and Expense collections of the document store.                 *)
(*                                                                         *)
(* Every handler is an async function; a handler that reads the store and  *)
(* then writes it is modelled as two steps, so that requests interleave at *)
(* the await between the read and the write.  inflight[p] holds the local  *)
(* variables of the request that worker p has between its two steps.       *)
(***************************************************************************)
EXTENDS Integers, FiniteSets, Sequences, TLC

VARIABLES
    users,          \* User collection: _id -> document
    expenses,       \* Expense collection: _id -> document
    nextUserId,     \* next _id the store hands out for a User
    nextExpenseId,  \* next _id the store hands out for an Expense
    tokens,         \* user _id -> expiry of the latest token issued for it (0: none)
    now,            \* the clock read by new Date() and by the token check
    inflight,       \* request slot -> locals of the handler between two awaits
    last            \* the response sent last

vars == <<users, expenses, nextUserId, nextExpenseId, tokens, now, inflight, last>>

-----------------------------------------------------------------------------
(* Bounds of the model *)

MaxUsers == 2
MaxExpenses == 1
MaxTime == 2

\* The _ids handed out so far, and one that was never handed out.
UserIds == 1..nextUserId
Procs == {"r1", "r2"}

-----------------------------------------------------------------------------
(* Configuration (process.env) *)

ADMIN_EMAIL == "admin@x.io"
ADMIN_PASSWORD == "admin123456"
JWT_SECRET == "secret"
JWT_EXPIRE == 2

-----------------------------------------------------------------------------
(* Request inputs *)

RawEmails == {"a@x.io", "A@x.io", ADMIN_EMAIL}
Absent == "absent"      \* a field the request body does not carry (undefined)
RegisterPasswords == {"pw1"}
LoginPasswords == {"pw1", "pw2", ADMIN_PASSWORD, Absent}

\* Lower-casing of an address, over the addresses of the model.
LowerCase(e) == IF e = "A@x.io" THEN "a@x.io" ELSE IF e = "C@x.io" THEN "c@x.io" ELSE e

\* body('email').isEmail().normalizeEmail(): the sanitizer rewrites req.body.email
\* before the handler runs.
normalizeEmail_skipped(e) == e
normalizeEmail(e) == LowerCase(e)

-----------------------------------------------------------------------------
(* Password and token utility *)

Never == 0      \* lastLogin of a User that never logged in

hashPassword(p) == <<"bcrypt", p>>
comparePassword(p, h) == hashPassword(p) = h

NoToken == [id |-> 0, exp |-> 0, sig |-> "none"]

\* jwt.sign({ id }, JWT_SECRET, { expiresIn: JWT_EXPIRE })
generateToken_const(id) == [id |-> 1, exp |-> now + JWT_EXPIRE, sig |-> JWT_SECRET]
generateToken(id) == [id |-> id, exp |-> now + JWT_EXPIRE, sig |-> JWT_SECRET]

\* jwt.verify: the id claim of a token with a good signature that has not expired; 0 otherwise.
verifyToken(tok, t) == IF tok.sig = JWT_SECRET /\ tok.exp > t THEN tok.id ELSE 0

\* The tokens a client can present: none, or the latest one issued for a user.
ClientTokens ==
    {NoToken} \cup {[id |-> i, exp |-> tokens[i], sig |-> JWT_SECRET] : i \in {j \in DOMAIN tokens : tokens[j] # 0}}

\* protect: the bearer token resolved to a live User; req.user is that document.
Authenticated(tok) == verifyToken(tok, now) \in DOMAIN users
ReqUser(tok) == [id |-> tok.id, role |-> users[tok.id].role]

\* admin: the gate on req.user.role.
IsAdmin(tok) == users[tok.id].role = "admin"

-----------------------------------------------------------------------------
(* Store operations on the User collection *)

\* User.findOne({ email })
FindByEmail(e) == {i \in DOMAIN users : users[i].email = e}

\* User.findOne({ email, _id: { $ne: id } })
FindOtherByEmail(e, id) == {i \in DOMAIN users : users[i].email = e /\ i # id}

\* The unique index on email: a write that would store e a second time is refused (E11000).
DuplicateKey(e, id) == \E i \in DOMAIN users : i # id /\ users[i].email = e

Insert(coll, id, doc) == [i \in DOMAIN coll \cup {id} |-> IF i = id THEN doc ELSE coll[i]]
Remove_kept(coll, id) == coll
Remove(coll, id) == [i \in DOMAIN coll \ {id} |-> coll[i]]

\* The name of the requests that create a User; monthlyBudget || 0 and
\* currency || 'USD' for the two fields the requests leave out.
NewUser(e, pw, role) ==
    [email |-> e, password |-> hashPassword(pw), role |-> role, isActive |-> TRUE, lastLogin |-> Never,
     name |-> "n0", monthlyBudget |-> 0, currency |-> "USD"]

Idle == [op |-> "idle"]

Response(op, status, kind) == [op |-> op, status |-> status, kind |-> kind, id |-> 0, token |-> NoToken]
ResponseWith(op, status, kind, id, tok) == [op |-> op, status |-> status, kind |-> kind, id |-> id, token |-> tok]

\* Requests between their read and their create; each needs a fresh _id.
PendingCreates == Cardinality({p \in Procs : inflight[p].op \in {"register", "adminCreate"}})

UsersUnchanged == UNCHANGED <<users, nextUserId, tokens>>
ExpensesUnchanged == UNCHANGED <<expenses, nextExpenseId>>

-----------------------------------------------------------------------------
(* POST /api/auth/register *)

\* const existingUser = await User.findOne({ email }); if (existingUser) return 400
registerExisting_none(email) == {}
registerExisting(email) == FindByEmail(email)

registerFind(p, rawEmail, pw) ==
    LET email == normalizeEmail(rawEmail) IN
    /\ inflight[p] = Idle
    /\ nextUserId + PendingCreates <= MaxUsers
    /\ IF registerExisting(email) # {}
       THEN /\ last' = Response("register", 400, "Conflict")
            /\ UNCHANGED inflight
       ELSE /\ inflight' = [inflight EXCEPT ![p] = [op |-> "register", email |-> email, password |-> pw]]
            /\ UNCHANGED last
    /\ UsersUnchanged /\ ExpensesUnchanged /\ UNCHANGED now

\* const user = await User.create({...}); const token = generateToken(user._id); 201
\* catch (error) -> 500
registerCreate(p) ==
    /\ inflight[p].op = "register"
    /\ inflight' = [inflight EXCEPT ![p] = Idle]
    /\ IF DuplicateKey(inflight[p].email, 0)
       THEN /\ last' = Response("register", 500, "Internal")
            /\ UsersUnchanged
       ELSE /\ users' = Insert(users, nextUserId, NewUser(inflight[p].email, inflight[p].password, "user"))
            /\ nextUserId' = nextUserId + 1
            /\ tokens' = Insert(tokens, nextUserId, generateToken(nextUserId).exp)
            /\ last' = ResponseWith("register", 201, "Created", nextUserId, generateToken(nextUserId))
    /\ ExpensesUnchanged /\ UNCHANGED now

-----------------------------------------------------------------------------
(* POST /api/auth/login *)

\* if (!user || !(await user.comparePassword(password))) return 401 'Invalid email or password'
loginCredentialsOk_inverted(found, pw) == \E id \in found : ~comparePassword(pw, users[id].password)
loginCredentialsOk(found, pw) == \E id \in found : comparePassword(pw, users[id].password)

\* if (!user.isActive) return 401 'Account is deactivated. Please contact support.'
accountActive_unchecked(id) == TRUE
accountActive(id) == users[id].isActive

\* user.lastLogin = new Date()
loginTimestamp == now

\* if (!user || !(await user.comparePassword(password))) return 401 'Invalid email or password':
\* one answer for both reasons.
loginRejected_userUnknown(found) ==
    IF found = {} THEN Response("login", 404, "NotFound") ELSE Response("login", 401, "InvalidCredentials")
loginRejected(found) == Response("login", 401, "InvalidCredentials")

loginFind(p, rawEmail, pw) ==
    LET email == normalizeEmail(rawEmail)
        found == FindByEmail(email) IN
    /\ inflight[p] = Idle
    /\ IF pw = Absent
       THEN /\ last' = Response("login", 400, "BadRequest")
            /\ UNCHANGED inflight
       ELSE IF ~loginCredentialsOk(found, pw)
       THEN /\ last' = loginRejected(found)
            /\ UNCHANGED inflight
       ELSE \E id \in found :
            IF ~accountActive(id)
            THEN /\ last' = ResponseWith("login", 401, "AccountDisabled", id, NoToken)
                 /\ UNCHANGED inflight
            ELSE /\ inflight' = [inflight EXCEPT ![p] =
                                    [op |-> "login", id |-> id, ts |-> loginTimestamp,
                                     read |-> users[id].lastLogin]]
                 /\ UNCHANGED last
    /\ UsersUnchanged /\ ExpensesUnchanged /\ UNCHANGED now

\* await user.save(); const token = generateToken(user._id); 200
loginSave(p) ==
    LET id == inflight[p].id IN
    /\ inflight[p].op = "login"
    /\ inflight' = [inflight EXCEPT ![p] = Idle]
    /\ IF id \notin DOMAIN users
       THEN /\ last' = Response("login", 500, "Internal")
            /\ UsersUnchanged
       ELSE /\ users' = [users EXCEPT ![id].lastLogin = inflight[p].ts]
            /\ tokens' = [tokens EXCEPT ![id] = generateToken(id).exp]
            /\ last' = ResponseWith("login", 200, "OK", id, generateToken(id))
            /\ UNCHANGED nextUserId
    /\ ExpensesUnchanged /\ UNCHANGED now

\* Time passes.
Tick ==
    /\ now < MaxTime
    /\ now' = now + 1
    /\ UNCHANGED <<users, expenses, nextUserId, nextExpenseId, tokens, inflight, last>>

-----------------------------------------------------------------------------
(* POST /api/auth/admin-login *)

\* if (email !== process.env.ADMIN_EMAIL || password !== process.env.ADMIN_PASSWORD) return 401
adminCredentialsOk(email, pw) == email = ADMIN_EMAIL /\ pw = ADMIN_PASSWORD

adminLoginFind(p, rawEmail, pw) ==
    LET email == normalizeEmail(rawEmail)
        found == FindByEmail(ADMIN_EMAIL) IN
    /\ inflight[p] = Idle
    /\ IF pw = Absent
       THEN /\ last' = Response("adminLogin", 400, "BadRequest")
            /\ UNCHANGED inflight
       ELSE IF ~adminCredentialsOk(email, pw)
       THEN /\ last' = Response("adminLogin", 401, "InvalidCredentials")
            /\ UNCHANGED inflight
       ELSE IF found = {}
       THEN /\ nextUserId + PendingCreates <= MaxUsers
            /\ inflight' = [inflight EXCEPT ![p] = [op |-> "adminCreate"]]
            /\ UNCHANGED last
       ELSE /\ \E id \in found :
                 inflight' = [inflight EXCEPT ![p] = [op |-> "adminSave", id |-> id, ts |-> now]]
            /\ UNCHANGED last
    /\ UsersUnchanged /\ ExpensesUnchanged /\ UNCHANGED now

\* adminUser = await User.create({ ..., role: 'admin' })
adminLoginCreate(p) ==
    /\ inflight[p].op = "adminCreate"
    /\ inflight' = [inflight EXCEPT ![p] = Idle]
    /\ IF DuplicateKey(ADMIN_EMAIL, 0)
       THEN /\ last' = Response("adminLogin", 500, "Internal")
            /\ UsersUnchanged
       ELSE /\ users' = Insert(users, nextUserId, NewUser(ADMIN_EMAIL, ADMIN_PASSWORD, "admin"))
            /\ nextUserId' = nextUserId + 1
            /\ tokens' = Insert(tokens, nextUserId, generateToken(nextUserId).exp)
            /\ last' = ResponseWith("adminLogin", 200, "OK", nextUserId, generateToken(nextUserId))
    /\ ExpensesUnchanged /\ UNCHANGED now

\* adminUser.lastLogin = new Date(); await adminUser.save()
\* save() of a document that is no longer in the collection throws (DocumentNotFoundError).
adminLoginSave(p) ==
    LET id == inflight[p].id IN
    /\ inflight[p].op = "adminSave"
    /\ inflight' = [inflight EXCEPT ![p] = Idle]
    /\ IF id \notin DOMAIN users
       THEN /\ last' = Response("adminLogin", 500, "Internal")
            /\ UsersUnchanged
       ELSE /\ users' = [users EXCEPT ![id].lastLogin = inflight[p].ts]
            /\ tokens' = [tokens EXCEPT ![id] = generateToken(id).exp]
            /\ last' = ResponseWith("adminLogin", 200, "OK", id, generateToken(id))
            /\ UNCHANGED nextUserId
    /\ ExpensesUnchanged /\ UNCHANGED now

-----------------------------------------------------------------------------
(* POST /api/auth/logout *)

\* The handler answers 200 and does nothing else: there is no token store to
\* clear, and a token the client keeps stays as good as it was.
tokensAfterLogout_revoked(tok) == [i \in DOMAIN tokens |-> IF i = tok.id THEN 0 ELSE tokens[i]]
tokensAfterLogout(tok) == tokens

logout(p, tok) ==
    /\ inflight[p] = Idle
    /\ IF ~Authenticated(tok)
       THEN /\ last' = Response("logout", 401, "Unauthenticated")
            /\ UNCHANGED tokens
       ELSE /\ last' = ResponseWith("logout", 200, "OK", ReqUser(tok).id, NoToken)
            /\ tokens' = tokensAfterLogout(tok)
    /\ UNCHANGED <<users, nextUserId, now, inflight>> /\ ExpensesUnchanged

-----------------------------------------------------------------------------
(* PUT /api/user/profile *)

\* const { name, email, monthlyBudget, currency } = req.body: fields names the
\* fields the body carries; the others are undefined.
ProfileBody(fields, name, email, monthlyBudget, currency) ==
    [fields |-> fields, name |-> name, email |-> email,
     monthlyBudget |-> monthlyBudget, currency |-> currency]
EmptyProfileBody == ProfileBody({}, "", "", 0, "")
ProfileEmailBodies ==
    {EmptyProfileBody} \cup {ProfileBody({"email"}, "", e, 0, "") : e \in RawEmails}

\* The update document { name, email, monthlyBudget, currency }: the keys whose
\* value is undefined are dropped from it, the others are set.
applyProfile_undefinedWritten(doc, body) ==
    [doc EXCEPT !.name = body.name, !.email = body.email,
                !.monthlyBudget = body.monthlyBudget, !.currency = body.currency]
\* The whole request body as the update document: it would also set role.
applyProfile_bodyAsUpdate(doc, body) ==
    [doc EXCEPT !.name = IF "name" \in body.fields THEN body.name ELSE @,
                !.email = IF "email" \in body.fields THEN body.email ELSE @,
                !.monthlyBudget = IF "monthlyBudget" \in body.fields THEN body.monthlyBudget ELSE @,
                !.currency = IF "currency" \in body.fields THEN body.currency ELSE @,
                !.role = IF "role" \in body.fields THEN body.role ELSE @]
applyProfile(doc, body) ==
    [doc EXCEPT !.name = IF "name" \in body.fields THEN body.name ELSE @,
                !.email = IF "email" \in body.fields THEN body.email ELSE @,
                !.monthlyBudget = IF "monthlyBudget" \in body.fields THEN body.monthlyBudget ELSE @,
                !.currency = IF "currency" \in body.fields THEN body.currency ELSE @]

updateProfileFind(p, tok, rawBody) ==
    LET body == [rawBody EXCEPT !.email = normalizeEmail(@)] IN
    /\ inflight[p] = Idle
    /\ IF ~Authenticated(tok)
       THEN /\ last' = Response("updateProfile", 401, "Unauthenticated")
            /\ UNCHANGED inflight
       ELSE IF "email" \in body.fields /\ FindOtherByEmail(body.email, ReqUser(tok).id) # {}
       THEN /\ last' = Response("updateProfile", 400, "Conflict")
            /\ UNCHANGED inflight
       ELSE /\ inflight' = [inflight EXCEPT ![p] =
                               [op |-> "updateProfile", id |-> ReqUser(tok).id, body |-> body]]
            /\ UNCHANGED last
    /\ UsersUnchanged /\ ExpensesUnchanged /\ UNCHANGED now

\* User.findByIdAndUpdate(req.user.id, { name, email, monthlyBudget, currency }, ...)
\* The result (null when the document is gone) is sent back with status 200.
updateProfileWrite(p) ==
    LET id == inflight[p].id
        body == inflight[p].body IN
    /\ inflight[p].op = "updateProfile"
    /\ inflight' = [inflight EXCEPT ![p] = Idle]
    /\ IF id \notin DOMAIN users
       THEN /\ last' = Response("updateProfile", 200, "OK")
            /\ UNCHANGED users
       ELSE IF "email" \in body.fields /\ DuplicateKey(body.email, id)
       THEN /\ last' = Response("updateProfile", 500, "Internal")
            /\ UNCHANGED users
       ELSE /\ users' = [users EXCEPT ![id] = applyProfile(@, body)]
            /\ last' = ResponseWith("updateProfile", 200, "OK", id, NoToken)
    /\ UNCHANGED <<nextUserId, tokens, now>> /\ ExpensesUnchanged

-----------------------------------------------------------------------------
(* PUT /api/user/change-password *)

\* if (!currentPassword || !newPassword) return 400
\* const user = await User.findById(req.user.id).select('+password')
\* if (!(await user.comparePassword(currentPassword))) return 400 'Current password is incorrect'
isPasswordCorrect_unchecked(currentPassword, id) == TRUE
isPasswordCorrect(currentPassword, id) == comparePassword(currentPassword, users[id].password)

changePasswordFind(p, tok, currentPassword, newPassword) ==
    /\ inflight[p] = Idle
    /\ IF ~Authenticated(tok)
       THEN /\ last' = Response("changePassword", 401, "Unauthenticated")
            /\ UNCHANGED inflight
       ELSE IF currentPassword = Absent \/ newPassword = Absent
       THEN /\ last' = Response("changePassword", 400, "BadRequest")
            /\ UNCHANGED inflight
       ELSE IF ~isPasswordCorrect(currentPassword, ReqUser(tok).id)
       THEN /\ last' = Response("changePassword", 400, "InvalidCredentials")
            /\ UNCHANGED inflight
       ELSE /\ inflight' = [inflight EXCEPT ![p] =
                               [op |-> "changePassword", id |-> ReqUser(tok).id,
                                current |-> currentPassword, password |-> newPassword]]
            /\ UNCHANGED last
    /\ UsersUnchanged /\ ExpensesUnchanged /\ UNCHANGED now

\* user.password = newPassword; await user.save(): the save hook stores the hash.
\* 200 'Password changed successfully'; catch (error) -> 500
changePasswordSave(p) ==
    LET id == inflight[p].id IN
    /\ inflight[p].op = "changePassword"
    /\ inflight' = [inflight EXCEPT ![p] = Idle]
    /\ IF id \notin DOMAIN users
       THEN /\ last' = Response("changePassword", 500, "Internal")
            /\ UNCHANGED users
       ELSE /\ users' = [users EXCEPT ![id].password = hashPassword(inflight[p].password)]
            /\ last' = ResponseWith("changePassword", 200, "OK", id, NoToken)
    /\ UNCHANGED <<nextUserId, tokens, now>> /\ ExpensesUnchanged

-----------------------------------------------------------------------------
(* The admin router: router.use(protect); router.use(admin); then the routes *)

\* The two middlewares in front of every admin route: the status they answer
\* with, or 0 when the request reaches its handler.
adminGate_protectOnly(tok) == IF ~Authenticated(tok) THEN 401 ELSE 0
adminGate(tok) ==
    IF ~Authenticated(tok) THEN 401 ELSE IF ~IsAdmin(tok) THEN 403 ELSE 0

gateRefusal(op, tok) ==
    IF adminGate(tok) = 401 THEN Response(op, 401, "Unauthenticated")
    ELSE Response(op, 403, "Forbidden")

-----------------------------------------------------------------------------
(* PUT /api/admin/users/:id *)

\* The request bodies of the model: one of email, role, isActive supplied, or none.
\* isActive arrives as JSON text and the schema casts it to a Boolean.
castBoolean(v) == v = "true"
EmptyUserBody == [email |-> Absent, role |-> Absent, isActive |-> Absent]
EmailBodies == {EmptyUserBody} \cup {[EmptyUserBody EXCEPT !.email = e] : e \in RawEmails}
RoleBodies == {[EmptyUserBody EXCEPT !.role = r] : r \in {"user", "admin"}}
ActiveBodies == {[EmptyUserBody EXCEPT !.isActive = a] : a \in {"true", "false"}}

updateUserFind(p, tok, target, rawBody) ==
    LET body == [rawBody EXCEPT !.email = IF @ = Absent THEN Absent ELSE normalizeEmail(@)] IN
    /\ inflight[p] = Idle
    /\ IF ~Authenticated(tok)
       THEN /\ last' = Response("updateUser", 401, "Unauthenticated")
            /\ UNCHANGED inflight
       ELSE IF adminGate(tok) = 403
       THEN /\ last' = Response("updateUser", 403, "Forbidden")
            /\ UNCHANGED inflight
       ELSE IF body.email # Absent /\ FindOtherByEmail(body.email, target) # {}
       THEN /\ last' = Response("updateUser", 400, "Conflict")
            /\ UNCHANGED inflight
       ELSE /\ inflight' = [inflight EXCEPT ![p] = [op |-> "updateUser", id |-> target, body |-> body]]
            /\ UNCHANGED last
    /\ UsersUnchanged /\ ExpensesUnchanged /\ UNCHANGED now

\* User.findByIdAndUpdate(req.params.id, { name, email, role, monthlyBudget, currency, isActive }, ...)
updateUserWrite(p) ==
    LET id == inflight[p].id
        body == inflight[p].body IN
    /\ inflight[p].op = "updateUser"
    /\ inflight' = [inflight EXCEPT ![p] = Idle]
    /\ IF id \notin DOMAIN users
       THEN /\ last' = Response("updateUser", 404, "NotFound")
            /\ UNCHANGED users
       ELSE IF body.email # Absent /\ DuplicateKey(body.email, id)
       THEN /\ last' = Response("updateUser", 500, "Internal")
            /\ UNCHANGED users
       ELSE /\ users' = [users EXCEPT
                            ![id].email = IF body.email = Absent THEN @ ELSE body.email,
                            ![id].role = IF body.role = Absent THEN @ ELSE body.role,
                            ![id].isActive = IF body.isActive = Absent THEN @ ELSE castBoolean(body.isActive)]
            /\ last' = ResponseWith("updateUser", 200, "OK", id, NoToken)
    /\ UNCHANGED <<nextUserId, tokens, now>> /\ ExpensesUnchanged

-----------------------------------------------------------------------------
(* DELETE /api/user/profile *)

\* user.deleteOne() removes the User document; neither handler touches the Expense
\* collection, and no cascade is declared.
expensesAfterUserDelete_cascade(id) ==
    [i \in {j \in DOMAIN expenses : expenses[j].user # id} |-> expenses[i]]
expensesAfterUserDelete(id) == expenses

deleteAccountFind(p, tok, pw) ==
    /\ inflight[p] = Idle
    /\ IF ~Authenticated(tok)
       THEN /\ last' = Response("deleteAccount", 401, "Unauthenticated")
            /\ UNCHANGED inflight
       ELSE IF pw = Absent
       THEN /\ last' = Response("deleteAccount", 400, "BadRequest")
            /\ UNCHANGED inflight
       ELSE IF ~comparePassword(pw, users[ReqUser(tok).id].password)
       THEN /\ last' = Response("deleteAccount", 400, "InvalidCredentials")
            /\ UNCHANGED inflight
       ELSE /\ inflight' = [inflight EXCEPT ![p] = [op |-> "deleteAccount", id |-> ReqUser(tok).id]]
            /\ UNCHANGED last
    /\ UsersUnchanged /\ ExpensesUnchanged /\ UNCHANGED now

\* await user.deleteOne(): removes the User document only.
deleteAccountWrite(p) ==
    /\ inflight[p].op = "deleteAccount"
    /\ inflight' = [inflight EXCEPT ![p] = Idle]
    /\ users' = Remove(users, inflight[p].id)
    /\ expenses' = expensesAfterUserDelete(inflight[p].id)
    /\ last' = ResponseWith("deleteAccount", 200, "OK", inflight[p].id, NoToken)
    /\ UNCHANGED <<nextUserId, tokens, now, nextExpenseId>>

-----------------------------------------------------------------------------
(* DELETE /api/admin/users/:id *)

\* if (user._id.toString() === req.user.id) return 400 'Cannot delete your own account'
isOwnAccount_unchecked(target, tok) == FALSE
isOwnAccount(target, tok) == target = ReqUser(tok).id

deleteUserFind(p, tok, target) ==
    /\ inflight[p] = Idle
    /\ IF ~Authenticated(tok)
       THEN /\ last' = Response("deleteUser", 401, "Unauthenticated")
            /\ UNCHANGED inflight
       ELSE IF adminGate(tok) = 403
       THEN /\ last' = Response("deleteUser", 403, "Forbidden")
            /\ UNCHANGED inflight
       ELSE IF target \notin DOMAIN users
       THEN /\ last' = Response("deleteUser", 404, "NotFound")
            /\ UNCHANGED inflight
       ELSE IF isOwnAccount(target, tok)
       THEN /\ last' = Response("deleteUser", 400, "BadRequest")
            /\ UNCHANGED inflight
       ELSE /\ inflight' = [inflight EXCEPT ![p] = [op |-> "deleteUser", id |-> target]]
            /\ UNCHANGED last
    /\ UsersUnchanged /\ ExpensesUnchanged /\ UNCHANGED now

deleteUserWrite(p) ==
    /\ inflight[p].op = "deleteUser"
    /\ inflight' = [inflight EXCEPT ![p] = Idle]
    /\ users' = Remove(users, inflight[p].id)
    /\ expenses' = expensesAfterUserDelete(inflight[p].id)
    /\ last' = ResponseWith("deleteUser", 200, "OK", inflight[p].id, NoToken)
    /\ UNCHANGED <<nextUserId, tokens, now, nextExpenseId>>

-----------------------------------------------------------------------------
(* The admin router's read routes *)

\* The read handlers query the two collections and write nothing.
adminRead(p, op, tok, answer) ==
    /\ inflight[p] = Idle
    /\ last' = IF adminGate(tok) # 0 THEN gateRefusal(op, tok) ELSE answer
    /\ UNCHANGED inflight
    /\ UsersUnchanged /\ ExpensesUnchanged /\ UNCHANGED now

\* GET /api/admin/dashboard
getDashboardStats(p, tok) ==
    adminRead(p, "getDashboardStats", tok, Response("getDashboardStats", 200, "OK"))

\* GET /api/admin/users
getAllUsers(p, tok) ==
    adminRead(p, "getAllUsers", tok, Response("getAllUsers", 200, "OK"))

\* GET /api/admin/users/:id: if (!user) return 404
getUserById(p, tok, target) ==
    adminRead(p, "getUserById", tok,
              IF target \in DOMAIN users
              THEN ResponseWith("getUserById", 200, "OK", target, NoToken)
              ELSE Response("getUserById", 404, "NotFound"))

\* GET /api/admin/expenses
getAllExpenses(p, tok) ==
    adminRead(p, "getAllExpenses", tok, Response("getAllExpenses", 200, "OK"))

-----------------------------------------------------------------------------
(* Expense schema and the routes' field validation *)

Categories ==
    {"Food & Dining", "Transportation", "Shopping", "Entertainment", "Healthcare",
     "Education", "Housing", "Utilities", "Insurance", "Travel", "Gifts",
     "Personal Care", "Subscriptions", "Other"}

\* A request body: the fields it carries and their values.  "$inc" is the
\* update operator { $inc: { amount: inc } }.
Body(fields, amount, category, user, inc) ==
    [fields |-> fields, amount |-> amount, category |-> category, user |-> user, inc |-> inc]

\* expenseValidation: the express-validator chains of the route.  They record
\* their errors on the request; no route or handler reads them (there is no
\* validationResult call), so the handler runs whatever they find.
expenseValidation(body) ==
    (IF "amount" \notin body.fields \/ body.amount < 0 THEN {"amount"} ELSE {})
    \cup (IF "category" \notin body.fields \/ body.category \notin Categories THEN {"category"} ELSE {})

\* Document validation of Expense.create: required, min: 0, enum.
schemaAccepts(body) ==
    /\ {"amount", "category"} \subseteq body.fields
    /\ body.amount >= 0
    /\ body.category \in Categories

\* Update validators of findByIdAndUpdate(..., { runValidators: true }): they run
\* on the paths the update sets and on no path an operator such as $inc changes.
updateValidatorsAccept(body) ==
    /\ "amount" \in body.fields => body.amount >= 0
    /\ "category" \in body.fields => body.category \in Categories

\* The store refuses an update that sets and increments the same path.
updateConflict(body) == {"amount", "$inc"} \subseteq body.fields

\* The document after the update is applied.
applyUpdate(doc, body) ==
    [user |-> IF "user" \in body.fields THEN body.user ELSE doc.user,
     amount |-> IF "amount" \in body.fields THEN body.amount
                ELSE IF "$inc" \in body.fields THEN doc.amount + body.inc
                ELSE doc.amount,
     category |-> IF "category" \in body.fields THEN body.category ELSE doc.category,
     date |-> doc.date]

\* if (expense.user.toString() !== req.user.id && req.user.role !== 'admin') return 403
notAuthorized_ownerOnlyCheckDropped(doc, tok) == FALSE
notAuthorized(doc, tok) == doc.user # ReqUser(tok).id /\ ReqUser(tok).role # "admin"

-----------------------------------------------------------------------------
(* POST /api/expenses *)

\* { ...req.body, user: req.user.id }: the caller's id is written after the
\* body's fields, and replaces a user field of the body.
expenseOwner_bodyLast(body, tok) == IF "user" \in body.fields THEN body.user ELSE ReqUser(tok).id
expenseOwner(body, tok) == ReqUser(tok).id

\* Expense.create({ ...req.body, user: req.user.id }); a validation error is thrown
\* and caught: 500.  A body without a date gets the schema default, Date.now.
createExpense(p, tok, body) ==
    /\ inflight[p] = Idle
    /\ nextExpenseId <= MaxExpenses
    /\ IF ~Authenticated(tok)
       THEN /\ last' = Response("createExpense", 401, "Unauthenticated")
            /\ ExpensesUnchanged
       ELSE IF ~schemaAccepts(body)
       THEN /\ last' = Response("createExpense", 500, "Internal")
            /\ ExpensesUnchanged
       ELSE /\ expenses' = Insert(expenses, nextExpenseId,
                                  [user |-> expenseOwner(body, tok), amount |-> body.amount,
                                   category |-> body.category, date |-> now])
            /\ nextExpenseId' = nextExpenseId + 1
            /\ last' = ResponseWith("createExpense", 201, "Created", nextExpenseId, NoToken)
    /\ UsersUnchanged /\ UNCHANGED <<now, inflight>>

-----------------------------------------------------------------------------
(* GET /api/expenses/:id *)

\* Expense.findById(id).populate('user', 'name email'): user is the owner's
\* document, or null when no User has that _id; expense.user._id then throws.
getExpense(p, tok, id) ==
    /\ inflight[p] = Idle
    /\ last' = IF ~Authenticated(tok) THEN Response("getExpense", 401, "Unauthenticated")
               ELSE IF id \notin DOMAIN expenses THEN Response("getExpense", 404, "NotFound")
               ELSE IF expenses[id].user \notin DOMAIN users THEN Response("getExpense", 500, "Internal")
               ELSE IF notAuthorized(expenses[id], tok) THEN Response("getExpense", 403, "Forbidden")
               ELSE ResponseWith("getExpense", 200, "OK", id, NoToken)
    /\ UsersUnchanged /\ ExpensesUnchanged /\ UNCHANGED <<now, inflight>>

-----------------------------------------------------------------------------
(* PUT /api/expenses/:id *)

updateExpenseFind(p, tok, id, body) ==
    /\ inflight[p] = Idle
    /\ IF ~Authenticated(tok)
       THEN /\ last' = Response("updateExpense", 401, "Unauthenticated")
            /\ UNCHANGED inflight
       ELSE IF id \notin DOMAIN expenses
       THEN /\ last' = Response("updateExpense", 404, "NotFound")
            /\ UNCHANGED inflight
       ELSE IF notAuthorized(expenses[id], tok)
       THEN /\ last' = Response("updateExpense", 403, "Forbidden")
            /\ UNCHANGED inflight
       ELSE /\ "$inc" \in body.fields => expenses[id].amount >= 0
            /\ inflight' = [inflight EXCEPT ![p] = [op |-> "updateExpense", id |-> id, body |-> body]]
            /\ UNCHANGED last
    /\ UsersUnchanged /\ ExpensesUnchanged /\ UNCHANGED now

\* Expense.findByIdAndUpdate(req.params.id, req.body, { new: true, runValidators: true })
\* The result (null when the document is gone) is sent back with status 200.
updateExpenseWrite(p) ==
    LET id == inflight[p].id
        body == inflight[p].body IN
    /\ inflight[p].op = "updateExpense"
    /\ inflight' = [inflight EXCEPT ![p] = Idle]
    /\ IF ~updateValidatorsAccept(body) \/ updateConflict(body)
       THEN /\ last' = Response("updateExpense", 500, "Internal")
            /\ UNCHANGED expenses
       ELSE IF id \notin DOMAIN expenses
       THEN /\ last' = Response("updateExpense", 200, "OK")
            /\ UNCHANGED expenses
       ELSE /\ expenses' = [expenses EXCEPT ![id] = applyUpdate(@, body)]
            /\ last' = ResponseWith("updateExpense", 200, "OK", id, NoToken)
    /\ UsersUnchanged /\ UNCHANGED <<nextExpenseId, now>>

-----------------------------------------------------------------------------
(* DELETE /api/expenses/:id *)

deleteExpenseFind(p, tok, id) ==
    /\ inflight[p] = Idle
    /\ IF ~Authenticated(tok)
       THEN /\ last' = Response("deleteExpense", 401, "Unauthenticated")
            /\ UNCHANGED inflight
       ELSE IF id \notin DOMAIN expenses
       THEN /\ last' = Response("deleteExpense", 404, "NotFound")
            /\ UNCHANGED inflight
       ELSE IF notAuthorized(expenses[id], tok)
       THEN /\ last' = Response("deleteExpense", 403, "Forbidden")
            /\ UNCHANGED inflight
       ELSE /\ inflight' = [inflight EXCEPT ![p] = [op |-> "deleteExpense", id |-> id]]
            /\ UNCHANGED last
    /\ UsersUnchanged /\ ExpensesUnchanged /\ UNCHANGED now

\* await expense.deleteOne()
deleteExpenseWrite(p) ==
    /\ inflight[p].op = "deleteExpense"
    /\ inflight' = [inflight EXCEPT ![p] = Idle]
    /\ expenses' = Remove(expenses, inflight[p].id)
    /\ last' = ResponseWith("deleteExpense", 200, "OK", inflight[p].id, NoToken)
    /\ UsersUnchanged /\ UNCHANGED <<nextExpenseId, now>>

-----------------------------------------------------------------------------
(* Filters on the Expense collection *)

\* req.user.id is the _id as a hex string; req.user._id is the ObjectId itself.
\* The user path of a stored Expense holds an ObjectId.
IdString(id) == [type |-> "String", hex |-> id]
ObjectId(id) == [type |-> "ObjectId", hex |-> id]

\* Model.find and Model.countDocuments cast the filter to the schema's types
\* before the store sees it: a hex string on an ObjectId path becomes the ObjectId.
castToSchema(v) == ObjectId(v.hex)

\* Model.aggregate hands its pipeline to the store as written: $match compares
\* the stored ObjectId with the value it was given, and a string never equals one.
userPathEquals(docUser, v) == v = ObjectId(docUser)

\* The date range of a query string: the bounds it carries.
DateRange(fields, startDate, endDate) == [fields |-> fields, startDate |-> startDate, endDate |-> endDate]

\* date: { $gte: new Date(startDate), $lte: new Date(endDate) }
dateFilterMatches(q, d) ==
    /\ "startDate" \in q.fields => d >= q.startDate
    /\ "endDate" \in q.fields => d <= q.endDate

RECURSIVE SumAmounts(_)
SumAmounts(ids) ==
    IF ids = {} THEN 0
    ELSE LET i == CHOOSE j \in ids : TRUE IN expenses[i].amount + SumAmounts(ids \ {i})

-----------------------------------------------------------------------------
(* GET /api/expenses/stats *)

\* { $match: filter } with filter = { user: req.user.id, date: dateFilter }
statsMatched(userValue, q) ==
    {i \in DOMAIN expenses : /\ userPathEquals(expenses[i].user, userValue)
                             /\ dateFilterMatches(q, expenses[i].date)}

\* { $group: { _id: null, total: { $sum: '$amount' }, count: { $sum: 1 } } }
groupTotal(ids) == [total |-> SumAmounts(ids), count |-> Cardinality(ids)]

\* totalExpenses[0] || { total: 0, count: 0 }
emptyTotals_perCall ==
    [total |-> IF last.op = "getExpenseStats" /\ last.status = 200 THEN 1 - last.total ELSE 0,
     count |-> 0]
emptyTotals == [total |-> 0, count |-> 0]

totalExpenses(userValue, q) ==
    IF statsMatched(userValue, q) = {} THEN emptyTotals ELSE groupTotal(statsMatched(userValue, q))

StatsResponse(caller, q, totals) ==
    [op |-> "getExpenseStats", status |-> 200, kind |-> "OK", id |-> caller, token |-> NoToken,
     query |-> q, total |-> totals.total, count |-> totals.count]

\* The grand total is the result of the handler's first aggregate; the reads that
\* follow it (by category, by month, recent) write nothing.
getExpenseStats(p, tok, q) ==
    /\ inflight[p] = Idle
    /\ last' = IF ~Authenticated(tok) THEN Response("getExpenseStats", 401, "Unauthenticated")
               ELSE StatsResponse(ReqUser(tok).id, q, totalExpenses(IdString(ReqUser(tok).id), q))
    /\ UsersUnchanged /\ ExpensesUnchanged /\ UNCHANGED <<now, inflight>>

-----------------------------------------------------------------------------
(* The calendar of the monthly statistics.  An instant is a number of hours; *)
(* years have 365 days, and the server's local time is UTC.                   *)

\* The days of a year before each month, and before the next year.
CumDays == <<0, 31, 59, 90, 120, 151, 181, 212, 243, 273, 304, 334, 365>>

\* new Date(year, monthIndex, day): midnight at the start of that day.
Date(year, monthIndex, day) == (year * 365 + CumDays[monthIndex + 1] + (day - 1)) * 24

\* new Date().getFullYear()
getFullYear(t) == t \div (365 * 24)

\* { $month: '$date' }: 1 for January to 12 for December.
monthOfDate(t) ==
    LET dayOfYear == (t \div 24) % 365 IN
    CHOOSE m \in 1..12 : CumDays[m] <= dayOfYear /\ dayOfYear < CumDays[m + 1]

\* { $match: { user: req.user._id,
\*             date: { $gte: new Date(currentYear, 0, 1), $lte: new Date(currentYear, 11, 31) } } }
monthlyMatched(userValue) ==
    LET currentYear == getFullYear(now) IN
    {i \in DOMAIN expenses : /\ userPathEquals(expenses[i].user, userValue)
                             /\ expenses[i].date >= Date(currentYear, 0, 1)
                             /\ expenses[i].date <= Date(currentYear, 11, 31)}

\* { $group: { _id: { $month: '$date' }, total: { $sum: '$amount' }, count: { $sum: 1 } } }:
\* one entry per month that has a matched Expense.
monthlyExpenses(userValue) ==
    LET ids == monthlyMatched(userValue)
        months == {monthOfDate(expenses[i].date) : i \in ids} IN
    [m \in months |-> groupTotal({i \in ids : monthOfDate(expenses[i].date) = m})]

-----------------------------------------------------------------------------
(* The route tables of the two expense routers.  Either of them may be the *)
(* one the server mounts: a request is served by either table.             *)

Route(method, path, handler) == [method |-> method, path |-> path, handler |-> handler]

ExpenseRouters == {"controller", "inline"}

\* routes/expense.js declares /stats before /:id; the router with the inline
\* handlers declares /:id first and /stats last.
ExpenseRoutes(router) ==
    IF router = "controller"
    THEN <<Route("POST", "/", "createExpense"), Route("GET", "/", "getExpenses"),
           Route("GET", "/stats", "getExpenseStats"), Route("GET", "/:id", "getExpense"),
           Route("PUT", "/:id", "updateExpense"), Route("DELETE", "/:id", "deleteExpense")>>
    ELSE <<Route("POST", "/", "createExpense"), Route("GET", "/", "getExpenses"),
           Route("GET", "/:id", "getExpense"), Route("PUT", "/:id", "updateExpense"),
           Route("DELETE", "/:id", "deleteExpense"), Route("GET", "/stats", "getExpenseStats")>>

\* A route matches its own path; /:id matches every path of one segment.
routeMatches(route, method, path) ==
    /\ route.method = method
    /\ route.path = path \/ (route.path = "/:id" /\ path # "/")

\* The router calls the first route of the table that matches.
dispatch(routes, method, path) ==
    LET hits == {k \in 1..Len(routes) : routeMatches(routes[k], method, path)} IN
    IF hits = {} THEN "none"
    ELSE routes[CHOOSE k \in hits : \A j \in hits : k <= j].handler

\* The whole statistics response: the grand total and the monthly part.
FullStatsResponse(caller, q) ==
    [op |-> "getExpenseStats", status |-> 200, kind |-> "OK", id |-> caller, token |-> NoToken,
     query |-> q,
     total |-> totalExpenses(IdString(caller), q).total,
     count |-> totalExpenses(IdString(caller), q).count,
     monthly |-> monthlyExpenses(ObjectId(caller))]

\* GET /api/expenses/stats.  Served by getExpense, req.params.id is "stats":
\* Expense.findById throws a cast error, caught: 500.
getStatsRequest(p, tok, router, q) ==
    /\ inflight[p] = Idle
    /\ last' = IF ~Authenticated(tok) THEN Response("expenses", 401, "Unauthenticated")
               ELSE IF dispatch(ExpenseRoutes(router), "GET", "/stats") = "getExpenseStats"
               THEN FullStatsResponse(ReqUser(tok).id, q)
               ELSE Response("getExpense", 500, "Internal")
    /\ UsersUnchanged /\ ExpensesUnchanged /\ UNCHANGED <<now, inflight>>

-----------------------------------------------------------------------------
(* GET /api/expenses *)

DefaultPage == 1
DefaultLimit == 10

\* The query string of a list request: the parameters it carries and their values.
ListQuery(fields, category, startDate, endDate, minAmount, maxAmount, sortBy, sortOrder, page, limit) ==
    [fields |-> fields, category |-> category, startDate |-> startDate, endDate |-> endDate,
     minAmount |-> minAmount, maxAmount |-> maxAmount, sortBy |-> sortBy, sortOrder |-> sortOrder,
     page |-> page, limit |-> limit]

\* const { page = 1, limit = 10, ... } = req.query; parseInt(page), parseInt(limit)
pageOf(q) == IF "page" \in q.fields THEN q.page ELSE DefaultPage
limitOf(q) == IF "limit" \in q.fields THEN q.limit ELSE DefaultLimit

\* const filter = { user: req.user.id }; category, date and amount are added when
\* the query carries them.  find and countDocuments cast the filter to the schema.
listFilterMatches_anyOwner(userValue, q, doc) ==
    /\ "category" \in q.fields => doc.category = q.category
    /\ dateFilterMatches(q, doc.date)
    /\ "minAmount" \in q.fields => doc.amount >= q.minAmount
    /\ "maxAmount" \in q.fields => doc.amount <= q.maxAmount
listFilterMatches(userValue, q, doc) ==
    /\ userPathEquals(doc.user, castToSchema(userValue))
    /\ "category" \in q.fields => doc.category = q.category
    /\ dateFilterMatches(q, doc.date)
    /\ "minAmount" \in q.fields => doc.amount >= q.minAmount
    /\ "maxAmount" \in q.fields => doc.amount <= q.maxAmount

listMatched(userValue, q) == {i \in DOMAIN expenses : listFilterMatches(userValue, q, expenses[i])}

\* sort[sortBy] = sortOrder === 'desc' ? -1 : 1
sortKey(q, i) == IF q.sortBy = "amount" THEN expenses[i].amount ELSE expenses[i].date
inSortOrder(q, a, b) == IF q.sortOrder = "desc" THEN sortKey(q, a) >= sortKey(q, b)
                        ELSE sortKey(q, a) <= sortKey(q, b)

\* The orders in which the store may return the ids: sorted on the key, documents
\* with equal keys in either order.
sortedResults(ids, q) ==
    {r \in [1..Cardinality(ids) -> ids] :
        /\ \A i, j \in 1..Cardinality(ids) : i # j => r[i] # r[j]
        /\ \A i, j \in 1..Cardinality(ids) : i < j => inSortOrder(q, r[i], r[j])}

\* .skip(skip).limit(limit) with skip = (page - 1) * limit
skipOf(q) == (pageOf(q) - 1) * limitOf(q)
Min(a, b) == IF a <= b THEN a ELSE b
pageItems_firstDropped(r, q) == SubSeq(r, skipOf(q) + 2, Min(skipOf(q) + limitOf(q), Len(r)))
pageItems(r, q) == SubSeq(r, skipOf(q) + 1, Min(skipOf(q) + limitOf(q), Len(r)))

\* Math.ceil(total / limit)
ceilDiv(total, limit) == (total + limit - 1) \div limit

ListResponse(caller, q, items, total) ==
    [op |-> "getExpenses", status |-> 200, kind |-> "OK", id |-> caller, token |-> NoToken,
     items |-> items, currentPage |-> pageOf(q), totalPages |-> ceilDiv(total, limitOf(q)),
     totalItems |-> total, itemsPerPage |-> limitOf(q)]

\* const expenses = await Expense.find(filter).sort(sort).skip(skip).limit(limit)
getExpensesFind(p, tok, q) ==
    /\ inflight[p] = Idle
    /\ IF ~Authenticated(tok)
       THEN /\ last' = Response("getExpenses", 401, "Unauthenticated")
            /\ UNCHANGED inflight
       ELSE /\ UNCHANGED last
            /\ \E r \in sortedResults(listMatched(IdString(ReqUser(tok).id), q), q) :
                 inflight' = [inflight EXCEPT ![p] =
                                 [op |-> "getExpenses", id |-> ReqUser(tok).id, query |-> q,
                                  items |-> pageItems(r, q)]]
    /\ UsersUnchanged /\ ExpensesUnchanged /\ UNCHANGED now

\* const total = await Expense.countDocuments(filter); res.status(200).json(...)
getExpensesCount(p) ==
    LET q == inflight[p].query
        total == Cardinality(listMatched(IdString(inflight[p].id), q)) IN
    /\ inflight[p].op = "getExpenses"
    /\ inflight' = [inflight EXCEPT ![p] = Idle]
    /\ last' = ListResponse(inflight[p].id, q, inflight[p].items, total)
    /\ UsersUnchanged /\ ExpensesUnchanged /\ UNCHANGED now

-----------------------------------------------------------------------------

Init ==
    /\ users = <<>>
    /\ expenses = <<>>
    /\ nextUserId = 1
    /\ nextExpenseId = 1
    /\ tokens = <<>>
    /\ now = 1
    /\ inflight = [p \in Procs |-> Idle]
    /\ last = Response("none", 0, "none")

\* The administration requests are served one after the other, next to the
\* concurrent requests of the other routes.
AdminProcs == {"r2"}

Next ==
    \/ \E p \in Procs, e \in RawEmails, pw \in RegisterPasswords : registerFind(p, e, pw)
    \/ \E p \in Procs : registerCreate(p)
    \/ \E p \in Procs, e \in RawEmails, pw \in LoginPasswords : adminLoginFind(p, e, pw)
    \/ \E p \in Procs : adminLoginCreate(p)
    \/ \E p \in Procs : adminLoginSave(p)
    \/ \E p \in Procs, tok \in ClientTokens, b \in ProfileEmailBodies : updateProfileFind(p, tok, b)
    \/ \E p \in Procs : updateProfileWrite(p)
    \/ \E p \in AdminProcs, tok \in ClientTokens, t \in UserIds, b \in EmailBodies : updateUserFind(p, tok, t, b)
    \/ \E p \in AdminProcs : updateUserWrite(p)
    \/ \E p \in Procs, tok \in ClientTokens, pw \in LoginPasswords : deleteAccountFind(p, tok, pw)
    \/ \E p \in Procs : deleteAccountWrite(p)
    \/ \E p \in AdminProcs, tok \in ClientTokens, t \in UserIds : deleteUserFind(p, tok, t)
    \/ \E p \in AdminProcs : deleteUserWrite(p)

Spec == Init /\ [][Next]_vars

-----------------------------------------------------------------------------
(* Logins against a registered user and the admin, while the admin deactivates, *)
(* reactivates or deletes the user and time passes.                             *)

InitLogin ==
    /\ users = Insert(Insert(<<>>, 1, NewUser("a@x.io", "pw1", "user")),
                      2, NewUser(ADMIN_EMAIL, ADMIN_PASSWORD, "admin"))
    /\ expenses = <<>>
    /\ nextUserId = 3
    /\ nextExpenseId = 1
    /\ now = 1
    /\ tokens = Insert(Insert(<<>>, 1, now + JWT_EXPIRE), 2, now + JWT_EXPIRE)
    /\ inflight = [p \in Procs |-> Idle]
    /\ last = Response("none", 0, "none")

NextLogin ==
    \/ Tick
    \/ \E p \in Procs, e \in RawEmails, pw \in LoginPasswords : loginFind(p, e, pw)
    \/ \E p \in Procs : loginSave(p)
    \/ \E p \in AdminProcs, tok \in ClientTokens, t \in UserIds, b \in ActiveBodies : updateUserFind(p, tok, t, b)
    \/ \E p \in AdminProcs : updateUserWrite(p)
    \/ \E p \in AdminProcs, tok \in ClientTokens, t \in UserIds : deleteUserFind(p, tok, t)
    \/ \E p \in AdminProcs : deleteUserWrite(p)

SpecLogin == InitLogin /\ [][NextLogin]_vars

-----------------------------------------------------------------------------
(* Expense requests of two users and the admin, while accounts are deleted. *)

\* The request bodies of the model.
CreateBodies ==
    {Body({"amount", "category"}, a, c, 0, 0) : a \in {-1, 5}, c \in {"Food & Dining", "Bogus"}}
UpdateBodies ==
    {Body({"amount", "category"}, 5, "Food & Dining", 0, 0),
     Body({"amount", "category"}, -1, "Food & Dining", 0, 0),
     Body({"amount", "category"}, 5, "Bogus", 0, 0),
     Body({"$inc"}, 0, "", 0, -10)}

\* The passwords submitted with an account deletion: the users' own and a wrong one.
UserPasswords == {"pw1", "pw2"}

\* The _ids handed out so far, and one that was never handed out.
SomeExpenseIds == 1..nextExpenseId

InitExpense ==
    /\ users = Insert(Insert(Insert(<<>>, 1, NewUser("a@x.io", "pw1", "user")),
                             2, NewUser("b@x.io", "pw1", "user")),
                      3, NewUser(ADMIN_EMAIL, ADMIN_PASSWORD, "admin"))
    /\ expenses = <<>>
    /\ nextUserId = 4
    /\ nextExpenseId = 1
    /\ now = 1
    /\ tokens = [i \in 1..3 |-> now + JWT_EXPIRE]
    /\ inflight = [p \in Procs |-> Idle]
    /\ last = Response("none", 0, "none")

\* Requests against the expense routes are served one after the other here; each
\* handler still runs in its two steps, around its await.
ExpenseProcs == {"r1"}

NextExpense ==
    \/ \E p \in ExpenseProcs, tok \in ClientTokens, b \in CreateBodies : createExpense(p, tok, b)
    \/ \E p \in ExpenseProcs, tok \in ClientTokens, id \in SomeExpenseIds : getExpense(p, tok, id)
    \/ \E p \in ExpenseProcs, tok \in ClientTokens, id \in SomeExpenseIds, b \in UpdateBodies :
          updateExpenseFind(p, tok, id, b)
    \/ \E p \in ExpenseProcs : updateExpenseWrite(p)
    \/ \E p \in ExpenseProcs, tok \in ClientTokens, id \in SomeExpenseIds : deleteExpenseFind(p, tok, id)
    \/ \E p \in ExpenseProcs : deleteExpenseWrite(p)
    \/ \E p \in ExpenseProcs, tok \in ClientTokens, pw \in UserPasswords : deleteAccountFind(p, tok, pw)
    \/ \E p \in ExpenseProcs : deleteAccountWrite(p)
    \/ \E p \in ExpenseProcs, tok \in ClientTokens, t \in UserIds : deleteUserFind(p, tok, t)
    \/ \E p \in ExpenseProcs : deleteUserWrite(p)
    \/ \E p \in ExpenseProcs, tok \in ClientTokens : logout(p, tok)

SpecExpense == InitExpense /\ [][NextExpense]_vars

-----------------------------------------------------------------------------
(* Lists, statistics and single reads of two users and the admin, next to the *)
(* creation, update and deletion of expenses.                                 *)

\* Expenses stored before the requests of the model: two of the first user, on
\* different dates and in different categories, and one of the second user.
StoredExpenses ==
    Insert(Insert(Insert(<<>>,
        1, [user |-> 1, amount |-> 5, category |-> "Food & Dining", date |-> 1]),
        2, [user |-> 1, amount |-> 7, category |-> "Travel", date |-> 2]),
        3, [user |-> 2, amount |-> 5, category |-> "Food & Dining", date |-> 1])

\* The list requests of the model: a filter on each of category, date and amount,
\* both sort orders, and pages of one or two items.
NoFilter(fields, sortBy, sortOrder, page, limit) ==
    ListQuery(fields, "Food & Dining", 2, 2, 6, 7, sortBy, sortOrder, page, limit)
ListQueries ==
    {NoFilter({}, "date", "desc", DefaultPage, DefaultLimit),
     NoFilter({"category"}, "amount", "asc", DefaultPage, DefaultLimit),
     NoFilter({"startDate", "endDate"}, "date", "desc", DefaultPage, DefaultLimit),
     NoFilter({"minAmount", "maxAmount"}, "date", "desc", DefaultPage, DefaultLimit)}
    \cup {NoFilter({"page", "limit"}, "date", "asc", pg, 1) : pg \in 1..2}
    \cup {NoFilter({"page", "limit"}, "amount", "desc", 2, 2)}

\* The date ranges of the statistics requests.
StatsQueries ==
    {DateRange({}, 1, 1), DateRange({"startDate"}, 2, 1), DateRange({"startDate", "endDate"}, 1, 1)}

ListCreateBodies == {Body({"amount", "category"}, 5, "Food & Dining", 0, 0)}
\* An update with an empty body: it sets nothing.
ListUpdateBodies == {Body({}, 0, "", 0, 0)}

ReaderProcs == {"r1"}
WriterProcs == {"r2"}

InitList ==
    /\ users = Insert(Insert(Insert(<<>>, 1, NewUser("a@x.io", "pw1", "user")),
                             2, NewUser("b@x.io", "pw1", "user")),
                      3, NewUser(ADMIN_EMAIL, ADMIN_PASSWORD, "admin"))
    /\ \/ expenses = <<>> /\ nextExpenseId = 1
       \/ expenses = StoredExpenses /\ nextExpenseId = 4
    /\ nextUserId = 4
    /\ now = 1
    /\ tokens = [i \in 1..3 |-> now + JWT_EXPIRE]
    /\ inflight = [p \in Procs |-> Idle]
    /\ last = Response("none", 0, "none")

NextList ==
    \/ \E p \in ReaderProcs, tok \in ClientTokens, q \in ListQueries : getExpensesFind(p, tok, q)
    \/ \E p \in ReaderProcs : getExpensesCount(p)
    \/ \E p \in ReaderProcs, tok \in ClientTokens, q \in StatsQueries : getExpenseStats(p, tok, q)
    \/ \E p \in ReaderProcs, tok \in ClientTokens, id \in SomeExpenseIds : getExpense(p, tok, id)
    \/ \E p \in WriterProcs, tok \in ClientTokens, b \in ListCreateBodies : createExpense(p, tok, b)
    \/ \E p \in WriterProcs, tok \in ClientTokens, id \in SomeExpenseIds, b \in ListUpdateBodies :
          updateExpenseFind(p, tok, id, b)
    \/ \E p \in WriterProcs : updateExpenseWrite(p)
    \/ \E p \in WriterProcs, tok \in ClientTokens, id \in SomeExpenseIds : deleteExpenseFind(p, tok, id)
    \/ \E p \in WriterProcs : deleteExpenseWrite(p)

SpecList == InitList /\ [][NextList]_vars

-----------------------------------------------------------------------------
(* The admin routes, called with the tokens of two users and of the admin; *)
(* the admin may promote and demote users and delete them.                  *)

InitAdmin ==
    /\ users = Insert(Insert(Insert(<<>>, 1, NewUser("a@x.io", "pw1", "user")),
                             2, NewUser("b@x.io", "pw1", "user")),
                      3, NewUser(ADMIN_EMAIL, ADMIN_PASSWORD, "admin"))
    /\ expenses = StoredExpenses
    /\ nextUserId = 4
    /\ nextExpenseId = 4
    /\ now = 1
    /\ tokens = [i \in 1..3 |-> now + JWT_EXPIRE]
    /\ inflight = [p \in Procs |-> Idle]
    /\ last = Response("none", 0, "none")

NextAdmin ==
    \/ \E p \in Procs, tok \in ClientTokens : getDashboardStats(p, tok)
    \/ \E p \in Procs, tok \in ClientTokens : getAllUsers(p, tok)
    \/ \E p \in Procs, tok \in ClientTokens, t \in UserIds : getUserById(p, tok, t)
    \/ \E p \in Procs, tok \in ClientTokens : getAllExpenses(p, tok)
    \/ \E p \in Procs, tok \in ClientTokens, t \in UserIds, b \in RoleBodies : updateUserFind(p, tok, t, b)
    \/ \E p \in Procs : updateUserWrite(p)
    \/ \E p \in Procs, tok \in ClientTokens, t \in UserIds : deleteUserFind(p, tok, t)
    \/ \E p \in Procs : deleteUserWrite(p)

SpecAdmin == InitAdmin /\ [][NextAdmin]_vars

-----------------------------------------------------------------------------
(* Two users changing their passwords, next to logins with either password *)
(* and the deletion of an account.                                          *)

\* The passwords of the change-password requests, and a field left out.
ChangePasswords == {"pw1", "pw2", Absent}

AccountEmails == {"a@x.io", "b@x.io"}

InitAccount ==
    /\ users = Insert(Insert(<<>>, 1, NewUser("a@x.io", "pw1", "user")),
                      2, NewUser("b@x.io", "pw1", "user"))
    /\ expenses = <<>>
    /\ nextUserId = 3
    /\ nextExpenseId = 1
    /\ now = 1
    /\ tokens = [i \in 1..2 |-> now + JWT_EXPIRE]
    /\ inflight = [p \in Procs |-> Idle]
    /\ last = Response("none", 0, "none")

NextAccount ==
    \/ \E p \in Procs, tok \in ClientTokens, cur \in ChangePasswords, new \in ChangePasswords :
          changePasswordFind(p, tok, cur, new)
    \/ \E p \in Procs : changePasswordSave(p)
    \/ \E p \in ReaderProcs, e \in AccountEmails, pw \in UserPasswords : loginFind(p, e, pw)
    \/ \E p \in ReaderProcs : loginSave(p)
    \/ \E p \in WriterProcs, tok \in ClientTokens, pw \in UserPasswords : deleteAccountFind(p, tok, pw)
    \/ \E p \in WriterProcs : deleteAccountWrite(p)

SpecAccount == InitAccount /\ [][NextAccount]_vars

-----------------------------------------------------------------------------
(* A user and the admin updating their profiles, while the admin changes *)
(* roles.                                                                *)

\* Profile updates that supply none, one or two of the four fields.
ProfileBodies ==
    {EmptyProfileBody,
     ProfileBody({"name"}, "n1", "", 0, ""),
     ProfileBody({"email"}, "", "C@x.io", 0, ""),
     ProfileBody({"monthlyBudget", "currency"}, "", "", 100, "EUR")}

\* The profile updates are served one after the other, next to the admin's
\* requests.
ProfileProcs == {"r1"}

InitProfile ==
    /\ users = Insert(Insert(<<>>, 1, NewUser("a@x.io", "pw1", "user")),
                      2, NewUser(ADMIN_EMAIL, ADMIN_PASSWORD, "admin"))
    /\ expenses = <<>>
    /\ nextUserId = 3
    /\ nextExpenseId = 1
    /\ now = 1
    /\ tokens = [i \in 1..2 |-> now + JWT_EXPIRE]
    /\ inflight = [p \in Procs |-> Idle]
    /\ last = Response("none", 0, "none")

NextProfile ==
    \/ \E p \in ProfileProcs, tok \in ClientTokens, b \in ProfileBodies : updateProfileFind(p, tok, b)
    \/ \E p \in ProfileProcs : updateProfileWrite(p)
    \/ \E p \in AdminProcs, tok \in ClientTokens, t \in UserIds, b \in RoleBodies :
          updateUserFind(p, tok, t, b)
    \/ \E p \in AdminProcs : updateUserWrite(p)

SpecProfile == InitProfile /\ [][NextProfile]_vars

-----------------------------------------------------------------------------
(* Expenses created, updated and deleted by two users with request bodies *)
(* that name an owner; an update runs next to a deletion.                 *)

\* Create requests without and with a user field (the second user's id).
OwnerCreateBodies ==
    {Body({"amount", "category"}, 5, "Food & Dining", 0, 0),
     Body({"amount", "category", "user"}, 5, "Food & Dining", 2, 0)}
\* Update requests that set the amount, or the user field.
OwnerUpdateBodies ==
    {Body({"amount"}, 7, "", 0, 0),
     Body({"user"}, 0, "", 2, 0)}

InitOwner ==
    /\ users = Insert(Insert(Insert(<<>>, 1, NewUser("a@x.io", "pw1", "user")),
                             2, NewUser("b@x.io", "pw1", "user")),
                      3, NewUser(ADMIN_EMAIL, ADMIN_PASSWORD, "admin"))
    /\ expenses = <<>>
    /\ nextUserId = 4
    /\ nextExpenseId = 1
    /\ now = 1
    /\ tokens = [i \in 1..3 |-> now + JWT_EXPIRE]
    /\ inflight = [p \in Procs |-> Idle]
    /\ last = Response("none", 0, "none")

NextOwner ==
    \/ \E p \in WriterProcs, tok \in ClientTokens, b \in OwnerCreateBodies : createExpense(p, tok, b)
    \/ \E p \in ReaderProcs, tok \in ClientTokens, id \in SomeExpenseIds, b \in OwnerUpdateBodies :
          updateExpenseFind(p, tok, id, b)
    \/ \E p \in ReaderProcs : updateExpenseWrite(p)
    \/ \E p \in WriterProcs, tok \in ClientTokens, id \in SomeExpenseIds : deleteExpenseFind(p, tok, id)
    \/ \E p \in WriterProcs : deleteExpenseWrite(p)

SpecOwner == InitOwner /\ [][NextOwner]_vars

-----------------------------------------------------------------------------
(* Statistics requests in the middle of a year, over Expenses dated in, *)
(* before and after it, while Expenses are deleted.                     *)

\* Year 1: an Expense in March, one at 10:00 on December 31, one at midnight
\* at the start of December 31; the second user's in March; one on December 31
\* of the year before and one on January 1 of the year after.
CalendarExpenses ==
    Insert(Insert(Insert(Insert(Insert(Insert(<<>>,
        1, [user |-> 1, amount |-> 5, category |-> "Food & Dining", date |-> Date(1, 2, 10) + 9]),
        2, [user |-> 1, amount |-> 7, category |-> "Travel", date |-> Date(1, 11, 31) + 10]),
        3, [user |-> 1, amount |-> 3, category |-> "Travel", date |-> Date(1, 11, 31)]),
        4, [user |-> 2, amount |-> 5, category |-> "Food & Dining", date |-> Date(1, 2, 10) + 9]),
        5, [user |-> 1, amount |-> 2, category |-> "Other", date |-> Date(0, 11, 31) + 10]),
        6, [user |-> 1, amount |-> 4, category |-> "Other", date |-> Date(2, 0, 1)])

CalendarQueries == {DateRange({}, 0, 0), DateRange({"startDate"}, Date(1, 11, 31), 0)}

InitStats ==
    /\ users = Insert(Insert(Insert(<<>>, 1, NewUser("a@x.io", "pw1", "user")),
                             2, NewUser("b@x.io", "pw1", "user")),
                      3, NewUser(ADMIN_EMAIL, ADMIN_PASSWORD, "admin"))
    /\ expenses = CalendarExpenses
    /\ nextUserId = 4
    /\ nextExpenseId = 7
    /\ now = Date(1, 5, 15) + 12
    /\ tokens = [i \in 1..3 |-> now + JWT_EXPIRE]
    /\ inflight = [p \in Procs |-> Idle]
    /\ last = Response("none", 0, "none")

NextStats ==
    \/ \E p \in ReaderProcs, tok \in ClientTokens, r \in ExpenseRouters, q \in CalendarQueries :
          getStatsRequest(p, tok, r, q)
    \/ \E p \in WriterProcs, tok \in ClientTokens, id \in DOMAIN expenses : deleteExpenseFind(p, tok, id)
    \/ \E p \in WriterProcs : deleteExpenseWrite(p)

SpecStats == InitStats /\ [][NextStats]_vars

-----------------------------------------------------------------------------
(* A registered user trying every self-service route, with bodies that ask *)
(* for the admin role, next to the admin-login and the admin's user update. *)

\* A profile update whose body also carries role: 'admin'.
EscalationBodies ==
    {[fields |-> {"name", "role"}, name |-> "n1", email |-> "", monthlyBudget |-> 0, currency |-> "",
      role |-> "admin"]}

\* Create requests whose body names a user.
EscalationCreateBodies == {Body({"amount", "category", "user"}, 5, "Food & Dining", 1, 0)}

InitRole ==
    /\ users = Insert(<<>>, 1, NewUser("a@x.io", "pw1", "user"))
    /\ expenses = <<>>
    /\ nextUserId = 2
    /\ nextExpenseId = 1
    /\ now = 1
    /\ tokens = [i \in 1..1 |-> now + JWT_EXPIRE]
    /\ inflight = [p \in Procs |-> Idle]
    /\ last = Response("none", 0, "none")

NextRole ==
    \/ \E p \in ReaderProcs, pw \in RegisterPasswords : registerFind(p, ADMIN_EMAIL, pw)
    \/ \E p \in ReaderProcs : registerCreate(p)
    \/ \E p \in ReaderProcs, pw \in RegisterPasswords : loginFind(p, "a@x.io", pw)
    \/ \E p \in ReaderProcs : loginSave(p)
    \/ \E p \in ReaderProcs, tok \in ClientTokens, b \in EscalationBodies : updateProfileFind(p, tok, b)
    \/ \E p \in ReaderProcs : updateProfileWrite(p)
    \/ \E p \in ReaderProcs, tok \in ClientTokens : changePasswordFind(p, tok, "pw1", "pw2")
    \/ \E p \in ReaderProcs : changePasswordSave(p)
    \/ \E p \in ReaderProcs, tok \in ClientTokens, b \in EscalationCreateBodies : createExpense(p, tok, b)
    \/ \E p \in ReaderProcs, tok \in ClientTokens : getAllUsers(p, tok)
    \/ \E p \in WriterProcs : adminLoginFind(p, ADMIN_EMAIL, ADMIN_PASSWORD)
    \/ \E p \in WriterProcs : adminLoginCreate(p)
    \/ \E p \in WriterProcs : adminLoginSave(p)
    \/ \E p \in WriterProcs, tok \in ClientTokens, t \in UserIds, b \in RoleBodies : updateUserFind(p, tok, t, b)
    \/ \E p \in WriterProcs : updateUserWrite(p)

SpecRole == InitRole /\ [][NextRole]_vars

-----------------------------------------------------------------------------
(* Properties *)

\* The User, if any, that holds the normalized form of a submitted address.
HolderOf(rawEmail) == {i \in DOMAIN users : users[i].email = LowerCase(rawEmail)}

\* C1: in every reachable state no two User records hold the same normalized email.
C1_UniqueNormalizedEmail ==
    \A i, j \in DOMAIN users : i # j => LowerCase(users[i].email) # LowerCase(users[j].email)

\* Two users exist and the unique index has just refused a profile update that
\* passed its own check before the other user took the address.
C1_Witness ==
    /\ Cardinality(DOMAIN users) = 2
    /\ last = Response("updateProfile", 500, "Internal")

\* C2: register with an email that an existing User holds answers Conflict and
\* creates nothing.
C2_RegisterExistingEmailConflict ==
    [][\A p \in Procs, e \in RawEmails, pw \in RegisterPasswords :
          (/\ inflight[p] = Idle
           /\ HolderOf(e) # {}
           /\ registerFind(p, e, pw))
          => /\ last' = Response("register", 400, "Conflict")
             /\ inflight'[p] = Idle
             /\ users' = users
             /\ nextUserId' = nextUserId]_vars

C2_Witness ==
    /\ last = Response("register", 400, "Conflict")
    /\ Cardinality(DOMAIN users) = 1

\* C3: when two registrations of one email both pass the existence check, the
\* one that creates second creates nothing and is answered with Conflict.
C3_RaceLoserAnsweredConflict ==
    [][\A p \in Procs :
          (registerCreate(p) /\ DuplicateKey(inflight[p].email, 0))
          => /\ users' = users
             /\ last'.kind = "Conflict"]_vars

\* C4: the id of a User created by register differs from every id handed out
\* before, and the returned token verifies to that id.
C4_RegisterFreshIdAndToken ==
    [][\A p \in Procs :
          (inflight[p].op = "register" /\ registerCreate(p) /\ last'.kind = "Created")
          => /\ last'.id \notin 1..(nextUserId - 1)
             /\ last'.id \notin DOMAIN users
             /\ DOMAIN users' = DOMAIN users \cup {last'.id}
             /\ verifyToken(last'.token, now') = last'.id]_vars

\* The second registration has succeeded.
C4_Witness ==
    /\ last.op = "register" /\ last.kind = "Created" /\ last.id = 2
    /\ Cardinality(DOMAIN users) = 2

C6_InactiveAlwaysAccountDisabled ==
    [][\A p \in Procs, e \in RawEmails, pw \in LoginPasswords \ {Absent} :
          (loginFind(p, e, pw) /\ \E i \in HolderOf(e) : ~users[i].isActive)
          => /\ last'.kind = "AccountDisabled"
             /\ users' = users]_vars

\* C6 as amended: for a User that is inactive when login reads it, the correct
\* password answers AccountDisabled and a wrong one InvalidCredentials; no User
\* changes in either case.
C6_InactiveLoginFails ==
    [][\A p \in Procs, e \in RawEmails, pw \in LoginPasswords \ {Absent} :
          \A i \in HolderOf(e) :
             (~users[i].isActive /\ loginFind(p, e, pw))
             => /\ users' = users
                /\ inflight'[p] = Idle
                /\ last' = IF comparePassword(pw, users[i].password)
                           THEN ResponseWith("login", 401, "AccountDisabled", i, NoToken)
                           ELSE Response("login", 401, "InvalidCredentials")]_vars

\* The deactivated user has been refused with the correct password.
C6_Witness ==
    /\ last = ResponseWith("login", 401, "AccountDisabled", 1, NoToken)
    /\ 1 \in DOMAIN users /\ ~users[1].isActive

\* C7: get-by-id of an existing Expense answers Forbidden to a caller who is
\* neither its owner nor an admin, and succeeds for a caller with role admin.
C7_GetByIdOwnership ==
    [][\A p \in Procs, tok \in ClientTokens, id \in DOMAIN expenses :
          (getExpense(p, tok, id) /\ Authenticated(tok))
          => /\ (expenses[id].user # tok.id /\ users[tok.id].role # "admin")
                   => last'.kind = "Forbidden"
             /\ users[tok.id].role = "admin" => last'.kind = "OK"]_vars

C9_StoredExpensesValid ==
    \A id \in DOMAIN expenses :
        /\ expenses[id].amount >= 0
        /\ expenses[id].category \in Categories

\* C10: a create request with a negative amount or an unknown category is
\* answered ValidationFailed (400) by the field validation, and stores nothing.
C10_CreateInvalidValidationFailed ==
    [][\A p \in Procs, tok \in ClientTokens, b \in CreateBodies :
          (createExpense(p, tok, b) /\ Authenticated(tok) /\ expenseValidation(b) # {})
          => /\ last' = Response("createExpense", 400, "ValidationFailed")
             /\ expenses' = expenses]_vars

\* The Expenses of a user whose date lies in the range of a statistics request.
OwnedInRange(id, q) ==
    {i \in DOMAIN expenses : expenses[i].user = id /\ dateFilterMatches(q, expenses[i].date)}

\* C11: the grand total and the count of a statistics response are the sum of
\* amount over, and the number of, the caller's Expenses dated within the
\* requested range.
C11_StatsTotalIsSumOfOwned ==
    [][\A p \in Procs, tok \in ClientTokens, q \in StatsQueries :
          (Authenticated(tok) /\ getExpenseStats(p, tok, q))
          => /\ last'.status = 200
             /\ last'.total = SumAmounts(OwnedInRange(tok.id, q))
             /\ last'.count = Cardinality(OwnedInRange(tok.id, q))]_vars

OwnedMatching(id, q) ==
    {i \in DOMAIN expenses :
        /\ expenses[i].user = id
        /\ "category" \in q.fields => expenses[i].category = q.category
        /\ "startDate" \in q.fields => expenses[i].date >= q.startDate
        /\ "endDate" \in q.fields => expenses[i].date <= q.endDate
        /\ "minAmount" \in q.fields => expenses[i].amount >= q.minAmount
        /\ "maxAmount" \in q.fields => expenses[i].amount <= q.maxAmount}

\* C13: a list response has totalItems equal to the number of matching records,
\* totalPages = ceil(totalItems / itemsPerPage) and at most itemsPerPage items,
\* and no item when the requested page lies beyond totalPages.
C13_PaginationContract ==
    [][\A p \in Procs :
          (getExpensesCount(p) /\ pageOf(inflight[p].query) >= 1 /\ limitOf(inflight[p].query) >= 1)
          => /\ last'.status = 200
             /\ last'.totalItems = Cardinality(OwnedMatching(inflight[p].id, inflight[p].query))
             /\ last'.totalPages * last'.itemsPerPage >= last'.totalItems
             /\ (last'.totalPages - 1) * last'.itemsPerPage < last'.totalItems
             /\ Len(last'.items) <= last'.itemsPerPage
             /\ last'.currentPage > last'.totalPages => last'.items = <<>>]_vars

\* The ids of an item list.
ItemIds(items) == {items[k] : k \in 1..Len(items)}

\* The ids the store handed out and holds no more: the deleted Expenses.
DeletedExpenseIds == (1..(nextExpenseId - 1)) \ DOMAIN expenses

C15_AdminSelfDeleteRefused ==
    [][\A p \in Procs, tok \in ClientTokens :
          (Authenticated(tok) /\ IsAdmin(tok) /\ deleteUserFind(p, tok, tok.id))
          => /\ last' = Response("deleteUser", 400, "BadRequest")
             /\ inflight'[p] = Idle
             /\ tok.id \in DOMAIN users'
             /\ users'[tok.id] = users[tok.id]]_vars

\* An admin has been refused the deletion of an account while a User with role admin is stored.
C15_Witness ==
    /\ last = Response("deleteUser", 400, "BadRequest")
    /\ \E i \in DOMAIN users : users[i].role = "admin" /\ users[i].email = ADMIN_EMAIL

\* C16: deleting a User, by delete-account or by the admin's delete-user, removes
\* that User record and nothing else: every Expense stored before is stored
\* unchanged afterwards, those of the deleted User included.
C16_UserDeleteKeepsExpenses ==
    [][\A p \in Procs :
          (deleteAccountWrite(p) \/ deleteUserWrite(p))
          => /\ expenses' = expenses
             /\ DOMAIN users' = DOMAIN users \ {inflight[p].id}
             /\ \A i \in DOMAIN users' : users'[i] = users[i]]_vars

\* A User who owned an Expense has been deleted, and the Expense is still stored.
C16_Witness ==
    /\ last.op \in {"deleteAccount", "deleteUser"} /\ last.status = 200
    /\ \E i \in DOMAIN expenses : expenses[i].user = last.id /\ last.id \notin DOMAIN users

\* C17: every item of an expense list is an Expense owned by the caller, whatever
\* the filters, the sort and the page, and also for a caller with role admin; the
\* response carries the items as they were read.
C17_ListScopedToCaller ==
    [][\A p \in ReaderProcs :
          /\ \A tok \in ClientTokens, q \in ListQueries :
                (Authenticated(tok) /\ getExpensesFind(p, tok, q))
                => /\ inflight'[p].id = tok.id
                   /\ \A i \in ItemIds(inflight'[p].items) :
                         i \in DOMAIN expenses /\ expenses[i].user = tok.id
          /\ getExpensesCount(p)
             => /\ last'.op = "getExpenses" /\ last'.status = 200
                /\ last'.id = inflight[p].id
                /\ last'.items = inflight[p].items]_vars

\* The first user has been sent both of its Expenses while another user's Expense is stored.
C17_Witness ==
    /\ last.op = "getExpenses" /\ last.status = 200 /\ last.id = 1
    /\ ItemIds(last.items) = {1, 2}
    /\ \E i \in DOMAIN expenses : expenses[i].user = 2

\* C18: a successful admin-login leaves a User with the admin email whose role
\* is admin, and the token it issues identifies a User whose role is admin.
C18_AdminLoginYieldsAdmin ==
    [][\A p \in Procs :
          ((adminLoginCreate(p) \/ adminLoginSave(p)) /\ last'.status = 200)
          => /\ \E i \in DOMAIN users' : users'[i].email = ADMIN_EMAIL /\ users'[i].role = "admin"
             /\ verifyToken(last'.token, now) \in DOMAIN users'
             /\ users'[verifyToken(last'.token, now)].role = "admin"]_vars

\* The refusal of a request that did not pass protect: 401 and no change.
Unauthenticated401(op) ==
    /\ last' = Response(op, 401, "Unauthenticated")
    /\ UNCHANGED <<users, expenses, nextUserId, nextExpenseId, tokens, inflight>>

\* Every request that tok can start on p, on each protected route, is refused.
ProtectedRefused(p, tok) ==
    /\ \A b \in CreateBodies : createExpense(p, tok, b) => Unauthenticated401("createExpense")
    /\ \A id \in SomeExpenseIds :
          /\ getExpense(p, tok, id) => Unauthenticated401("getExpense")
          /\ \A b \in UpdateBodies : updateExpenseFind(p, tok, id, b) => Unauthenticated401("updateExpense")
          /\ deleteExpenseFind(p, tok, id) => Unauthenticated401("deleteExpense")
    /\ \A pw \in UserPasswords : deleteAccountFind(p, tok, pw) => Unauthenticated401("deleteAccount")
    /\ \A t \in UserIds : deleteUserFind(p, tok, t) => Unauthenticated401("deleteUser")
    /\ logout(p, tok) => Unauthenticated401("logout")

\* C19: logout changes no stored state, and every token that a protected route
\* accepted before the logout is one it accepts after it.
C19_LogoutKeepsTokens ==
    [][\A p \in ExpenseProcs, tok \in ClientTokens :
          (Authenticated(tok) /\ logout(p, tok))
          => /\ last' = ResponseWith("logout", 200, "OK", tok.id, NoToken)
             /\ UNCHANGED <<users, expenses, nextUserId, nextExpenseId, tokens, now, inflight>>
             /\ \A t \in ClientTokens : Authenticated(t) => (t \in ClientTokens /\ Authenticated(t))']_vars

\* A user has logged out and the token the user holds is still accepted.
C19_Witness ==
    /\ last = ResponseWith("logout", 200, "OK", 1, NoToken)
    /\ \E t \in ClientTokens : t.id = 1 /\ Authenticated(t)

\* C20: deleting a User removes the record and leaves the tokens issued for it
\* in the clients' hands; every request that such a token then starts on a
\* protected route is answered Unauthenticated and changes nothing.
C20_DeletedUserUnauthenticated ==
    [][/\ \A p \in ExpenseProcs :
             (deleteAccountWrite(p) \/ deleteUserWrite(p)) => inflight[p].id \notin DOMAIN users'
       /\ \A p \in ExpenseProcs, tok \in ClientTokens :
             (tok.id # 0 /\ tok.id \notin DOMAIN users) => ProtectedRefused(p, tok)]_vars

\* A deleted user's token, still held, has been refused on a protected route.
C20_Witness ==
    /\ last.status = 401 /\ last.kind = "Unauthenticated"
    /\ last.op \in {"createExpense", "getExpense", "updateExpense", "deleteExpense"}
    /\ 1 \notin DOMAIN users
    /\ \E t \in ClientTokens : t.id = 1 /\ verifyToken(t, now) = 1

\* C21: every admin route called with the token of a user whose role is not
\* admin answers Forbidden (403) without starting its handler, and no User or
\* Expense record changes in that step.
AdminRouteCalled(p, tok) ==
    \/ getDashboardStats(p, tok)
    \/ getAllUsers(p, tok)
    \/ getAllExpenses(p, tok)
    \/ \E t \in UserIds : getUserById(p, tok, t)
    \/ \E t \in UserIds : deleteUserFind(p, tok, t)
    \/ \E t \in UserIds, b \in RoleBodies : updateUserFind(p, tok, t, b)

C21_NonAdminForbidden ==
    [][\A p \in Procs, tok \in ClientTokens :
          (Authenticated(tok) /\ ~IsAdmin(tok) /\ AdminRouteCalled(p, tok))
          => /\ last'.status = 403 /\ last'.kind = "Forbidden"
             /\ inflight' = inflight
             /\ users' = users /\ expenses' = expenses]_vars

\* A user demoted from admin is refused on the user list.
C21_Witness ==
    /\ last = Response("getAllUsers", 403, "Forbidden")
    /\ 3 \in DOMAIN users /\ users[3].role = "user"
    /\ \E i \in DOMAIN users : users[i].role = "admin"

\* C22: login with an email no User has and login with the email of a User and
\* a password that does not match answer the same response, status and message
\* alike, and start nothing.
C22_LoginRejectionUniform ==
    [][\A p \in ReaderProcs, e \in AccountEmails, pw \in UserPasswords :
          (/\ inflight[p] = Idle
           /\ \/ HolderOf(e) = {}
              \/ \E i \in HolderOf(e) : ~comparePassword(pw, users[i].password)
           /\ loginFind(p, e, pw))
          => /\ last' = Response("login", 401, "InvalidCredentials")
             /\ inflight' = inflight
             /\ users' = users]_vars

\* A login has been rejected while one of the emails of the requests is held by
\* no User (its holder deleted the account) and the other by a User.
C22_Witness ==
    /\ last = Response("login", 401, "InvalidCredentials")
    /\ HolderOf("a@x.io") = {}
    /\ HolderOf("b@x.io") # {}
    /\ \A p \in Procs : inflight[p] = Idle

\* C23: change-password with a current password that does not verify against
\* the stored hash answers InvalidCredentials, starts nothing and leaves every
\* User as it was; a change-password that succeeds leaves a hash that verifies
\* the new password and not the old one (when they differ); and login is
\* rejected as InvalidCredentials exactly for a password the stored hash does not
\* verify, and goes on for the password it verifies.
C23_ChangePassword ==
    [][\A p \in Procs :
          /\ \A tok \in ClientTokens, cur \in UserPasswords, new \in UserPasswords :
                (/\ Authenticated(tok)
                 /\ ~comparePassword(cur, users[tok.id].password)
                 /\ changePasswordFind(p, tok, cur, new))
                => /\ last' = Response("changePassword", 400, "InvalidCredentials")
                   /\ inflight' = inflight
                   /\ users' = users
          /\ (changePasswordSave(p) /\ last'.status = 200)
             => /\ comparePassword(inflight[p].password, users'[inflight[p].id].password)
                /\ inflight[p].current # inflight[p].password
                   => ~comparePassword(inflight[p].current, users'[inflight[p].id].password)
          /\ \A e \in AccountEmails, pw \in UserPasswords :
                loginFind(p, e, pw)
                => \A i \in HolderOf(e) :
                      IF comparePassword(pw, users[i].password)
                      THEN users[i].isActive => inflight'[p].op = "login" /\ inflight'[p].id = i
                      ELSE last' = Response("login", 401, "InvalidCredentials") /\ inflight' = inflight]_vars

\* The first user has logged in with the new password after changing it.
C23_Witness ==
    /\ last.op = "login" /\ last.status = 200 /\ last.id = 1
    /\ 1 \in DOMAIN users
    /\ comparePassword("pw2", users[1].password)
    /\ ~comparePassword("pw1", users[1].password)

\* C24: the owner of a created Expense is the id of the caller, also when the
\* request body carries a user field.
C24_CreatedOwnerIsCaller ==
    [][\A p \in Procs, tok \in ClientTokens, b \in OwnerCreateBodies :
          (createExpense(p, tok, b) /\ last'.status = 201)
          => /\ last'.id \notin DOMAIN expenses
             /\ expenses'[last'.id].user = tok.id]_vars

\* The first user has created an Expense, and owns it.
C24_Witness ==
    /\ last.op = "createExpense" /\ last.status = 201
    /\ last.id \in DOMAIN expenses
    /\ expenses[last.id].user = 1

\* C27: the owner of an Expense is the same after every step that keeps the
\* Expense, whatever the body of an update.
C27_OwnerNeverChanges ==
    [][\A id \in DOMAIN expenses \cap DOMAIN expenses' :
          expenses'[id].user = expenses[id].user]_vars

\* C29: an update whose write finds the Expense deleted since its check answers
\* NotFound, and no Expense is created or changed by it.
C29_UpdateAfterDeleteNotFound ==
    [][\A p \in Procs :
          (updateExpenseWrite(p) /\ inflight[p].id \notin DOMAIN expenses)
          => /\ last'.kind = "NotFound"
             /\ expenses' = expenses]_vars

\* The caller's Expenses dated in month m of the current year.
OwnedInMonth(id, m) ==
    {i \in DOMAIN expenses : /\ expenses[i].user = id
                             /\ getFullYear(expenses[i].date) = getFullYear(now)
                             /\ monthOfDate(expenses[i].date) = m}

\* C25: the monthly part of a statistics response has, for each month of the
\* current year in which the caller has Expenses, their sum and count, up to the
\* end of December 31, and no entry for the other months.
C25_MonthlyPerCalendarMonth ==
    [][\A p \in ReaderProcs, tok \in ClientTokens, r \in ExpenseRouters, q \in CalendarQueries :
          (/\ Authenticated(tok)
           /\ getStatsRequest(p, tok, r, q)
           /\ last'.op = "getExpenseStats")
          => /\ DOMAIN last'.monthly = {m \in 1..12 : OwnedInMonth(tok.id, m) # {}}
             /\ \A m \in DOMAIN last'.monthly :
                   /\ last'.monthly[m].total = SumAmounts(OwnedInMonth(tok.id, m))
                   /\ last'.monthly[m].count = Cardinality(OwnedInMonth(tok.id, m))]_vars

\* C30: a GET request for /expenses/stats is answered by the statistics handler.
C30_StatsRouteDispatched ==
    [][\A p \in ReaderProcs, tok \in ClientTokens, r \in ExpenseRouters, q \in CalendarQueries :
          (Authenticated(tok) /\ getStatsRequest(p, tok, r, q))
          => last'.op = "getExpenseStats"]_vars

\* C26: a profile update that succeeds sets the fields its body supplies, among
\* name, email, monthlyBudget and currency, and leaves the others and role,
\* isActive, the password hash and lastLogin as they were, and every other User
\* untouched; a profile update that does not succeed changes no User.
C26_ProfileUpdateFrame ==
    [][\A p \in ProfileProcs :
          /\ (inflight[p].op = "updateProfile" /\ updateProfileWrite(p))
             => LET id == inflight[p].id
                    body == inflight[p].body IN
                IF id \in DOMAIN users /\ last'.status = 200
                THEN /\ \A f \in {"name", "email", "monthlyBudget", "currency"} :
                           users'[id][f] = IF f \in body.fields THEN body[f] ELSE users[id][f]
                     /\ \A f \in {"role", "isActive", "password", "lastLogin"} :
                           users'[id][f] = users[id][f]
                     /\ \A j \in DOMAIN users \ {id} : users'[j] = users[j]
                     /\ DOMAIN users' = DOMAIN users
                ELSE users' = users
          /\ \A tok \in ClientTokens, b \in ProfileBodies :
                (inflight[p] = Idle /\ updateProfileFind(p, tok, b)) => users' = users]_vars

\* The first user, promoted to admin, has set a name and nothing else: email,
\* budget and currency are those of the registration.
C26_Witness ==
    /\ last = ResponseWith("updateProfile", 200, "OK", 1, NoToken)
    /\ users[1].name = "n1" /\ users[1].role = "admin"
    /\ users[1].email = "a@x.io" /\ users[1].monthlyBudget = 0 /\ users[1].currency = "USD"

\* C28: a User gets the role admin only in a step of admin-login that creates
\* it or of a user update that went through the admin gate and sets that role;
\* and a caller whose role is not admin is refused at the admin gate, whatever
\* was registered, updated or created before.
C28_AdminOnlyByAdminPaths ==
    [][/\ users' # users
          => \A id \in DOMAIN users' :
             (/\ users'[id].role = "admin"
              /\ id \notin DOMAIN users \/ users[id].role # "admin")
             => \/ \E p \in Procs : inflight[p].op = "adminCreate" /\ adminLoginCreate(p)
                \/ \E p \in Procs : /\ inflight[p].op = "updateUser"
                                    /\ inflight[p].id = id
                                    /\ inflight[p].body.role = "admin"
                                    /\ updateUserWrite(p)
       /\ \A p \in Procs, tok \in ClientTokens :
             (/\ inflight[p] = Idle
              /\ Authenticated(tok)
              /\ users[tok.id].role # "admin"
              /\ \/ getAllUsers(p, tok)
                 \/ \E t \in UserIds, b \in RoleBodies : updateUserFind(p, tok, t, b))
             => /\ last'.status = 403
                /\ inflight' = inflight
                /\ users' = users]_vars

\* The registered user has sent a profile update that asks for the admin role,
\* and holds the role user still, next to the admin that admin-login created.
C28_Witness ==
    /\ last = ResponseWith("updateProfile", 200, "OK", 1, NoToken)
    /\ users[1].role = "user"
    /\ \E i \in DOMAIN users : users[i].role = "admin" /\ users[i].email = ADMIN_EMAIL

====
